---- MODULE Spec2Model ----
(***************************************************************************)
(* Scroll-step state machine of the LCM explainer page: App (mode and the  *)
(* two state blobs), TraditionalScene, CompactionScene, the collapse       *)
(* animation of SharedPanel and the development-only AgentationOverlay.    *)
(*                                                                         *)
(* Items and summaries are represented by their ids; an item's type        *)
(* (message / summary / fresh-placeholder) is a function of its id.        *)
(* gsap.delayedCall and gsap.timeline callbacks are pending entries that   *)
(* fire in separate steps; a scroll step moves the page to an adjacent     *)
(* zone of the scroll range and runs the ScrollTrigger callbacks of the    *)
(* boundary that was crossed.                                              *)
(***************************************************************************)
EXTENDS Integers, Sequences, FiniteSets, TLC

\* ---------------------------------------------------------------- bounds
\* Largest number of TraditionalScene "summarizing" delayed calls in flight.
MaxDelayed == 1
\* Last zone the page scrolls to in the specification of the overlay.
OverlayLastZone == 6

\* ------------------------------------------------------------ fixture data
MESSAGES ==
  << "m1", "m2", "m3", "m4", "m5", "m6", "m7", "m8", "m9", "m10",
     "m11", "m12", "m13", "m14", "m15", "m16", "m17", "m18", "m19", "m20" >>

\* M[i] of the source (0-based index)
M(i) == MESSAGES[i + 1]

SUMMARY_1 == [id |-> "sum_01", sourceIds |-> <<"m1","m2","m3","m4","m5","m6","m7","m8">>]
SUMMARY_2 == [id |-> "sum_02", sourceIds |-> <<"m9","m10","m11","m12","m13","m14","m15","m16">>]
SUMMARY_3 == [id |-> "sum_03", sourceIds |-> << >>]
SUMMARY_4 == [id |-> "sum_04", sourceIds |-> << >>]
D1_SUMMARY == [id |-> "sum_d1_01", sourceIds |-> <<"sum_01","sum_02","sum_03","sum_04">>]
D2_SUMMARY == [id |-> "sum_d2_01",
               sourceIds |-> <<"sum_d1_01","sum_d1_02","sum_d1_03","sum_d1_04">>]
\* sourceIds of a summary of the fixture, by id: SUMMARY_3..SUMMARY_16 have
\* sourceIds: [], the three other D1 summaries list their four leaves.
sourceIdsOf(id) ==
  CASE id = SUMMARY_1.id -> SUMMARY_1.sourceIds
    [] id = SUMMARY_2.id -> SUMMARY_2.sourceIds
    [] id = D1_SUMMARY.id -> D1_SUMMARY.sourceIds
    [] id = "sum_d1_02" -> <<"sum_05", "sum_06", "sum_07", "sum_08">>
    [] id = "sum_d1_03" -> <<"sum_09", "sum_10", "sum_11", "sum_12">>
    [] id = "sum_d1_04" -> <<"sum_13", "sum_14", "sum_15", "sum_16">>
    [] id = D2_SUMMARY.id -> D2_SUMMARY.sourceIds
    [] OTHER -> << >>
FRESH_TAIL_PLACEHOLDER == [id |-> "fresh-placeholder"]
FRESH_TAIL_COUNT == 4

FULL_DAG_SUMMARIES ==
  << "sum_01", "sum_02", "sum_03", "sum_04",
     "sum_05", "sum_06", "sum_07", "sum_08",
     "sum_09", "sum_10", "sum_11", "sum_12",
     "sum_13", "sum_14", "sum_15", "sum_16",
     "sum_d1_01", "sum_d1_02", "sum_d1_03", "sum_d1_04",
     "sum_d2_01" >>

T_MESSAGES == << "tm1", "tm2", "tm3", "tm4", "tm5", "tm6" >>

\* ----------------------------------------------------------------- helpers
Range(s) == { s[i] : i \in 1..Len(s) }

Filter(s, Keep(_)) == SelectSeq(s, Keep)

\* Array.prototype.slice(from, to) with 0-based from, exclusive to
Slice(s, from, to) == SubSeq(s, from + 1, to)

msgItem(msg) == msg
sumItem(s) == s.id
ftItem == FRESH_TAIL_PLACEHOLDER.id

ItemType(id) ==
  IF id \in Range(MESSAGES) THEN "message"
  ELSE IF id = FRESH_TAIL_PLACEHOLDER.id THEN "fresh-placeholder"
  ELSE "summary"

\* ------------------------------------------------------------ itemsForStep
itemsForStep(s) ==
  CASE s = 0 -> [items |-> << >>, summaries |-> << >>]
    [] s = 1 -> [items |-> <<msgItem(M(0)), msgItem(M(1)), msgItem(M(2)), msgItem(M(3))>>,
                 summaries |-> << >>]
    [] s = 2 -> [items |-> <<msgItem(M(0)), msgItem(M(1)), msgItem(M(2)), msgItem(M(3)),
                             msgItem(M(4)), msgItem(M(5)), msgItem(M(6)), msgItem(M(7))>>,
                 summaries |-> << >>]
    [] s \in {3, 4} ->
                [items |-> <<msgItem(M(0)), msgItem(M(1)), msgItem(M(2)), msgItem(M(3)),
                             msgItem(M(4)), msgItem(M(5)), msgItem(M(6)), msgItem(M(7)),
                             msgItem(M(8)), msgItem(M(9)), msgItem(M(10)), msgItem(M(11))>>,
                 summaries |-> << >>]
    [] s = 5 -> [items |-> <<sumItem(SUMMARY_1),
                             msgItem(M(8)), msgItem(M(9)), msgItem(M(10)), msgItem(M(11))>>,
                 summaries |-> <<SUMMARY_1.id>>]
    [] s = 6 -> [items |-> <<sumItem(SUMMARY_1),
                             msgItem(M(8)), msgItem(M(9)), msgItem(M(10)), msgItem(M(11)),
                             msgItem(M(12)), msgItem(M(13)), msgItem(M(14)), msgItem(M(15))>>,
                 summaries |-> <<SUMMARY_1.id>>]
    [] s = 7 -> [items |-> <<sumItem(SUMMARY_1),
                             msgItem(M(8)), msgItem(M(9)), msgItem(M(10)), msgItem(M(11)),
                             msgItem(M(12)), msgItem(M(13)), msgItem(M(14)), msgItem(M(15)),
                             msgItem(M(16)), msgItem(M(17)), msgItem(M(18)), msgItem(M(19))>>,
                 summaries |-> <<SUMMARY_1.id>>]
    [] s = 8 -> [items |-> <<sumItem(SUMMARY_1), sumItem(SUMMARY_2),
                             msgItem(M(16)), msgItem(M(17)), msgItem(M(18)), msgItem(M(19))>>,
                 summaries |-> <<SUMMARY_1.id, SUMMARY_2.id>>]
    [] s = 9 -> [items |-> <<sumItem(SUMMARY_1), sumItem(SUMMARY_2),
                             sumItem(SUMMARY_3), sumItem(SUMMARY_4), ftItem>>,
                 summaries |-> <<SUMMARY_1.id, SUMMARY_2.id, SUMMARY_3.id, SUMMARY_4.id>>]
    [] s = 10 -> [items |-> <<sumItem(D1_SUMMARY), ftItem>>,
                  summaries |-> <<SUMMARY_1.id, SUMMARY_2.id, SUMMARY_3.id,
                                  SUMMARY_4.id, D1_SUMMARY.id>>]
    [] s = 11 -> [items |-> <<sumItem(D2_SUMMARY), ftItem>>,
                  summaries |-> FULL_DAG_SUMMARIES]
    [] s \in 12..20 -> [items |-> <<sumItem(D2_SUMMARY), ftItem>>,
                        summaries |-> FULL_DAG_SUMMARIES]
    [] OTHER -> [items |-> << >>, summaries |-> << >>]

\* ------------------------------------------------------------------ state
VARIABLES
  zone,             \* scroll position, as the index of a zone of the page
  mounted,          \* the React tree is mounted (ScrollTriggers alive)
  mode,             \* App.mode
  tradState,        \* App.tradState (Null or the last reported blob)
  lcmState,         \* App.lcmState
  trad,             \* TraditionalScene state, refs and pending delayed calls
  lcm,              \* CompactionScene state, refs and pending delayed calls
  collapseAnimRef,  \* SharedPanel.collapseAnimRef: callback of the running timeline
  overlay           \* AgentationOverlay: build flag, import status, Comp

vars == << zone, mounted, mode, tradState, lcmState, trad, lcm, collapseAnimRef, overlay >>

Null == [null |-> TRUE]
NoAnim == "null"

\* The part of the program a handler works on.
World == [mode |-> mode, tradState |-> tradState, lcmState |-> lcmState,
          trad |-> trad, lcm |-> lcm, collapseAnimRef |-> collapseAnimRef]

\* ------------------------------------------------------------------- App
activateTrad(w) == [w EXCEPT !.mode = "traditional"]

activateLcm(w) == [w EXCEPT !.mode = "lcm", !.tradState = Null]

\* handleTradState switching the mode as well
MutHandleTradState(w, state) == [w EXCEPT !.mode = "traditional", !.tradState = state]

handleTradState(w, state) == [w EXCEPT !.tradState = state]

handleLcmState(w, state) == [w EXCEPT !.lcmState = state]

\* -------------------------------------------------- SharedPanel (collapse)
\* Elements currently mounted in the items list: the ids SharedPanel rendered
\* from the props of the last commit.
tradItems == IF tradState = Null THEN << >> ELSE tradState.items

lcmItems == lcmState.items

itemRefs ==
  IF mode = "traditional" THEN Range(tradItems)
  ELSE IF mode = "lcm" THEN Range(lcmItems)
  ELSE {}

IsMessage(i) == ItemType(i) = "message"

\* ids of the raw messages of the rendered LCM items
rawIds == IF mode = "lcm" THEN Filter(lcmItems, IsMessage) ELSE << >>

\* The ids that get the FRESH TAIL badge: rawIds.slice(-FRESH_TAIL_COUNT)
freshIds ==
  IF mode = "lcm" /\ lcmState.showFreshTail
  THEN Range(SubSeq(rawIds,
                    IF Len(rawIds) > FRESH_TAIL_COUNT
                    THEN Len(rawIds) - FRESH_TAIL_COUNT + 1 ELSE 1,
                    Len(rawIds)))
  ELSE {}

\* The onComplete closures handed to animateCollapse.
OnComplete(w, cb) ==
  CASE cb = "trad"  -> [w EXCEPT !.trad.items = << >>, !.trad.itemsRef = "new",
                                 !.trad.newRef = TRUE, !.trad.showSummary = TRUE]
    [] cb = "lcm5"  -> [w EXCEPT !.lcm.items = itemsForStep(5).items,
                                 !.lcm.summaries = itemsForStep(5).summaries]
    [] cb = "lcm8"  -> [w EXCEPT !.lcm.items = itemsForStep(8).items,
                                 !.lcm.summaries = itemsForStep(8).summaries]
    [] cb = "lcm10" -> [w EXCEPT !.lcm.items = itemsForStep(10).items,
                                 !.lcm.summaries = itemsForStep(10).summaries]

\* animateCollapse killing the running timeline before it looks for elements
MutAnimateCollapse(w, ids, cb) ==
  LET els == Range(ids) \cap itemRefs
  IN  IF els = {} THEN OnComplete([w EXCEPT !.collapseAnimRef = NoAnim], cb)
      ELSE [w EXCEPT !.collapseAnimRef = cb]

\* SharedPanel.animateCollapse: no mounted element -> onComplete at once;
\* otherwise the running timeline (if any) is killed and a new one started.
animateCollapse(w, ids, cb) ==
  LET els == Range(ids) \cap itemRefs
  IN  IF els = {} THEN OnComplete(w, cb)
      ELSE [w EXCEPT !.collapseAnimRef = cb]

\* ------------------------------------------------------- TraditionalScene
TraditionalApplyStep(w, s) ==
  LET prev == w.trad.prevStepRef
      w1 == [w EXCEPT !.trad.staggerQueue = << >>,
                      !.trad.prevStepRef = s,
                      !.trad.step = s]
  IN  CASE s = 0 ->
             [w1 EXCEPT !.trad.items = Slice(T_MESSAGES, 0, 2),
                        !.trad.itemsRef = "new", !.trad.newRef = TRUE,
                        !.trad.showSummary = FALSE,
                        !.trad.summarizing = FALSE]
        [] s = 1 ->
             IF prev < 1
             THEN [w1 EXCEPT !.trad.showSummary = FALSE,
                             !.trad.summarizing = FALSE,
                             !.trad.staggerQueue = Slice(T_MESSAGES, 2, 6)]
             ELSE [w1 EXCEPT !.trad.showSummary = FALSE,
                             !.trad.summarizing = FALSE,
                             !.trad.items = T_MESSAGES,
                             !.trad.itemsRef = "T_MESSAGES",
                             !.trad.newRef = (w.trad.itemsRef # "T_MESSAGES")]
        [] s = 2 ->
             IF prev < 2
             THEN [w1 EXCEPT !.trad.summarizing = TRUE,
                             !.trad.delayed = @ + 1]
             ELSE [w1 EXCEPT !.trad.items = << >>,
                             !.trad.itemsRef = "new", !.trad.newRef = TRUE,
                             !.trad.showSummary = TRUE,
                             !.trad.summarizing = FALSE]

\* onEnter / onEnterBack of TraditionalScene's narration trigger i
TradTrigger(w, i) == TraditionalApplyStep(activateTrad(w), i)

\* ------------------------------------------------------- CompactionScene
toolViewForStep(s) ==
  CASE s = 13 -> [toolView |-> "overview", expandPhase |-> 0]
    [] s = 14 -> [toolView |-> "describe", expandPhase |-> 0]
    [] s = 15 -> [toolView |-> "grep",     expandPhase |-> 0]
    [] s = 16 -> [toolView |-> "expand",   expandPhase |-> 1]
    [] s = 17 -> [toolView |-> "expand",   expandPhase |-> 2]
    [] s = 18 -> [toolView |-> "expand",   expandPhase |-> 3]
    [] s = 19 -> [toolView |-> "expand",   expandPhase |-> 3]
    [] OTHER  -> [toolView |-> "null",     expandPhase |-> 0]

dagHighlightIds(toolView, expandPhase) ==
  IF toolView = "describe" THEN <<"sum_d2_01">>
  ELSE IF toolView = "grep" THEN <<"sum_d2_01", "sum_d1_01", "sum_01", "msgs_sum_01">>
  ELSE IF toolView = "expand" /\ expandPhase >= 3 THEN <<"sum_d2_01", "sum_d1_01", "sum_01">>
  ELSE IF toolView = "expand" /\ expandPhase >= 2 THEN <<"sum_d2_01", "sum_d1_01", "sum_01">>
  ELSE IF toolView = "expand" /\ expandPhase >= 1 THEN <<"sum_d2_01", "sum_d1_01">>
  ELSE << >>

\* applyStep(8) passing the ids of applyStep(5)
MutCollapseIds(s) ==
  CASE s = 5 -> SUMMARY_1.sourceIds
    [] s = 8 -> SUMMARY_1.sourceIds
    [] s = 10 -> <<SUMMARY_1.id, SUMMARY_2.id, SUMMARY_3.id, SUMMARY_4.id>>

\* The ids applyStep(s) passes to animateCollapse in its collapse branches
collapseIds(s) ==
  CASE s = 5 -> SUMMARY_1.sourceIds
    [] s = 8 -> SUMMARY_2.sourceIds
    [] s = 10 -> <<SUMMARY_1.id, SUMMARY_2.id, SUMMARY_3.id, SUMMARY_4.id>>

CompactionApplyStep(w, s) ==
  LET prev == w.lcm.prevStepRef
      tv == toolViewForStep(s)
      w1 == [w EXCEPT !.lcm.staggerQueue = << >>,
                      !.lcm.prevStepRef = s,
                      !.lcm.step = s,
                      !.lcm.fastForward = FALSE,
                      !.lcm.compacting = (s = 4 \/ s = 7),
                      !.lcm.toolView = tv.toolView,
                      !.lcm.expandPhase = tv.expandPhase,
                      !.lcm.sectionCActive = (s = 11 \/ s = 12)]
      t == itemsForStep(s)
      prevT == itemsForStep(prev)
      prevIds == Range(prevT.items)
      InPrev(i) == i \in prevIds
      NotInPrev(i) == i \notin prevIds
      keep == Filter(t.items, InPrev)
      added == Filter(t.items, NotInPrev)
  IN  IF s = 5 /\ prev < 5
      THEN animateCollapse([w1 EXCEPT !.lcm.compacting = FALSE],
                           collapseIds(5), "lcm5")
      ELSE IF s = 8 /\ prev < 8
      THEN animateCollapse([w1 EXCEPT !.lcm.compacting = FALSE],
                           collapseIds(8), "lcm8")
      ELSE IF s = 10 /\ prev = 9
      THEN animateCollapse(w1, collapseIds(10), "lcm10")
      ELSE IF s > prev /\ prev >= 0 /\ Len(added) > 1
      THEN [w1 EXCEPT !.lcm.summaries = t.summaries,
                      !.lcm.items = keep,
                      !.lcm.staggerQueue = added]
      ELSE [w1 EXCEPT !.lcm.summaries = t.summaries,
                      !.lcm.items = t.items]

\* onEnter / onEnterBack of CompactionScene's narration trigger i
LcmTrigger(w, i) == CompactionApplyStep(activateLcm(w), i)

\* Scrub ScrollTrigger callbacks
scrubOnEnter(w) ==
  [activateLcm(w) EXCEPT !.lcm.sum3Added = FALSE,
                         !.lcm.sum4Added = FALSE,
                         !.lcm.fastForward = TRUE,
                         !.lcm.step = -1,
                         !.lcm.compacting = FALSE,
                         !.lcm.items = <<sumItem(SUMMARY_1), sumItem(SUMMARY_2), ftItem>>,
                         !.lcm.summaries = <<SUMMARY_1.id, SUMMARY_2.id>>]

scrubOnLeaveBack(w) ==
  [activateLcm(w) EXCEPT !.lcm.sum3Added = FALSE,
                         !.lcm.sum4Added = FALSE,
                         !.lcm.fastForward = FALSE,
                         !.lcm.items = itemsForStep(8).items,
                         !.lcm.summaries = itemsForStep(8).summaries]

scrubOnLeave(w) == [w EXCEPT !.lcm.fastForward = FALSE]

NotPlaceholder(i) == ItemType(i) # "fresh-placeholder"

\* One milestone of onUpdate: add summary sm when progress is past it
AddMilestone(l, sm) ==
  [l EXCEPT !.summaries = IF sm.id \in Range(@) THEN @ ELSE Append(@, sm.id),
            !.items = IF sm.id \in Range(@) THEN @
                      ELSE Filter(@, NotPlaceholder) \o <<sumItem(sm), ftItem>>]

\* progress is given in percent
scrubOnUpdate(w, progress) ==
  LET l0 == w.lcm
      l1 == IF progress >= 40 /\ ~l0.sum3Added
            THEN [AddMilestone(l0, SUMMARY_3) EXCEPT !.sum3Added = TRUE]
            ELSE l0
      l2 == IF progress < 40 /\ l1.sum3Added
            THEN [l1 EXCEPT !.sum3Added = FALSE, !.sum4Added = FALSE,
                            !.summaries = <<SUMMARY_1.id, SUMMARY_2.id>>,
                            !.items = <<sumItem(SUMMARY_1), sumItem(SUMMARY_2), ftItem>>]
            ELSE l1
      l3 == IF progress >= 72 /\ ~l2.sum4Added
            THEN [AddMilestone(l2, SUMMARY_4) EXCEPT !.sum4Added = TRUE]
            ELSE l2
      NotS4(i) == i # SUMMARY_4.id
      l4 == IF progress < 72 /\ l3.sum4Added
            THEN [l3 EXCEPT !.sum4Added = FALSE,
                            !.summaries = Filter(@, NotS4),
                            !.items = Filter(@, NotS4)]
            ELSE l3
  IN  [w EXCEPT !.lcm = l4]

\* ---------------------------------------------- onStateChange effects
\* The blob TraditionalScene reports (usedTokens is a function of items and
\* showSummary and is left out).
TradBlob(t) == [step |-> t.step, items |-> t.items,
                showSummary |-> t.showSummary, summarizing |-> t.summarizing]

\* The blob CompactionScene reports (usedTokens is a function of items).
LcmBlob(l) ==
  [step |-> l.step, items |-> l.items, summaries |-> l.summaries,
   compacting |-> l.compacting, fastForward |-> l.fastForward,
   showFreshTail |-> (l.step >= 3 \/ l.fastForward),
   toolView |-> l.toolView, expandPhase |-> l.expandPhase,
   dagHighlightIds |-> dagHighlightIds(l.toolView, l.expandPhase),
   bannerText |-> IF l.step <= 5 THEN "Turns 1-4" ELSE "Turns 5-8",
   sectionCActive |-> l.sectionCActive]

\* The render after a handler: each scene whose state changed (by value, or
\* by the identity of its items array) runs its onStateChange effect.
Effects(w0, w1) ==
  LET tChanged == TradBlob(w1.trad) # TradBlob(w0.trad) \/ w1.trad.newRef
      lChanged == LcmBlob(w1.lcm) # LcmBlob(w0.lcm)
      w2 == IF tChanged THEN handleTradState(w1, TradBlob(w1.trad)) ELSE w1
      w3 == IF lChanged THEN handleLcmState(w2, LcmBlob(w2.lcm)) ELSE w2
  IN  [w3 EXCEPT !.trad.newRef = FALSE]

\* Assign the result of a handler, after the effects of the render it causes.
Commit(w1) ==
  LET w == IF mounted THEN Effects(World, w1) ELSE [w1 EXCEPT !.trad.newRef = FALSE]
  IN  /\ mode' = w.mode
      /\ tradState' = w.tradState
      /\ lcmState' = w.lcmState
      /\ trad' = w.trad
      /\ lcm' = w.lcm
      /\ collapseAnimRef' = w.collapseAnimRef

\* ------------------------------------------------------------- DagPanel
\* depth of a summary of the fixture, by id
depthOf(id) ==
  IF id = D2_SUMMARY.id THEN 2
  ELSE IF id \in {D1_SUMMARY.id, "sum_d1_02", "sum_d1_03", "sum_d1_04"} THEN 1
  ELSE 0

d0Nodes(summaries) == { id \in Range(summaries) : depthOf(id) = 0 }
d1Nodes(summaries) == { id \in Range(summaries) : depthOf(id) = 1 }

\* Values visualExpandedD1Id can have in a render with these summaries: the
\* single D1 (or null without a D1); with several D1s, null or the group
\* that is still shown expanded while the collapse transition runs.
visualExpandedD1Ids(summaries) ==
  IF Cardinality(d1Nodes(summaries)) = 0 THEN {"null"}
  ELSE IF Cardinality(d1Nodes(summaries)) = 1 THEN d1Nodes(summaries)
  ELSE {"null"} \cup d1Nodes(summaries)

\* The D0 nodes rendered individually: those of the expanded group (all of
\* them in the virtual group when there is no D1).
expandedD0s(summaries, visualExpandedD1Id) ==
  IF d1Nodes(summaries) = {} THEN d0Nodes(summaries)
  ELSE UNION { Range(sourceIdsOf(g)) \cap d0Nodes(summaries) :
                 g \in d1Nodes(summaries) \cap {visualExpandedD1Id} }

\* The ids whose highlight overlay DagPanel renders with opacity 1: D1
\* nodes, D0 nodes of the expanded group and their message groups.  The D2
\* node has no overlay, and nothing is rendered without a D0 node.
dagHighlighted(summaries, highlightIds, visualExpandedD1Id) ==
  IF d0Nodes(summaries) = {} THEN {}
  ELSE LET shown == expandedD0s(summaries, visualExpandedD1Id)
       IN  (d1Nodes(summaries) \cap Range(highlightIds))
             \cup (shown \cap Range(highlightIds))
             \cup { "msgs_" \o id : id \in { x \in shown : ("msgs_" \o x) \in Range(highlightIds) } }

\* ------------------------------------------------------ scroll geometry
\* Zones of the scroll range, top to bottom.  Zone 0 is the hero; 1..3 are
\* Traditional sections 0..2; 4 is the overlap of Traditional 2 (end
\* 'bottom 38%') with LCM section 0 (start 'top 55%'); LCM section k alone
\* is zone 5+2k (k <= 8) or 9+2k (k >= 9) and the zone after it is its
\* overlap with section k+1 (start 'top 55%' before end 'bottom 45%').
\* Zones 22..25 are the scrub section: 22 is its overlap with section 8,
\* 23 progress < 0.4, 24 progress in [0.4, 0.72), 25 progress >= 0.72;
\* zone 26 is the gap between the scrub end ('bottom 60%') and the start
\* of section 9.
FirstScrubZone == 22
LastScrubZone == 25
LastZone == 49

\* progress (percent) reported by the scrub trigger inside a zone
ZoneProgress(z) ==
  CASE z = 22 -> 3 [] z = 23 -> 20 [] z = 24 -> 50 [] z = 25 -> 80

\* Callbacks run when the page scrolls down from zone b to zone b+1.
Forward(b, w) ==
  CASE b \in 0..2 -> TradTrigger(w, b)
    [] b = 3 -> LcmTrigger(w, 0)
    [] b \in 5..20 /\ b % 2 = 1 -> LcmTrigger(w, (b - 5) \div 2 + 1)
    [] b = 21 -> scrubOnEnter(scrubOnUpdate(w, ZoneProgress(22)))
    [] b \in 22..24 -> scrubOnUpdate(w, ZoneProgress(b + 1))
    [] b = 25 -> scrubOnLeave(scrubOnUpdate(w, 100))
    [] b = 26 -> LcmTrigger(w, 9)
    [] b \in 27..48 /\ b % 2 = 1 -> LcmTrigger(w, (b - 27) \div 2 + 10)
    [] OTHER -> w

\* Callbacks run when the page scrolls up from zone b+1 to zone b.
Backward(b, w) ==
  CASE b \in 1..2 -> TradTrigger(w, b - 1)
    [] b = 4 -> TradTrigger(w, 2)
    [] b \in 5..20 /\ b % 2 = 0 -> LcmTrigger(w, (b - 6) \div 2)
    [] b = 21 -> scrubOnLeaveBack(scrubOnUpdate(w, 0))
    [] b = 22 -> LcmTrigger(scrubOnUpdate(w, ZoneProgress(22)), 8)
    [] b \in 23..25 -> scrubOnUpdate(w, ZoneProgress(b))
    [] b \in 27..48 /\ b % 2 = 0 -> LcmTrigger(w, (b - 28) \div 2 + 9)
    [] OTHER -> w

\* ------------------------------------------------------ AgentationOverlay
\* The mount effect without its import.meta.env.DEV check
MutAgentationOverlayEffect(o) == [o EXCEPT !.import = "pending"]

\* The mount effect: start the dynamic import in development builds only.
AgentationOverlayEffect(o) ==
  IF ~o.DEV THEN o ELSE [o EXCEPT !.import = "pending"]

\* ------------------------------------------------------------------- Init
\* The state after the first render and its mount effects, for a build with
\* import.meta.env.DEV = dev.
InitBuild(dev) ==
  /\ zone = 0
  /\ mounted = TRUE
  /\ mode = "traditional"
  /\ trad = [step |-> 0, items |-> Slice(T_MESSAGES, 0, 2), itemsRef |-> "new",
             newRef |-> FALSE, showSummary |-> FALSE, summarizing |-> FALSE,
             prevStepRef |-> 0, staggerQueue |-> << >>, delayed |-> 0]
  /\ lcm = [step |-> 0, items |-> << >>, summaries |-> << >>,
            compacting |-> FALSE, fastForward |-> FALSE,
            toolView |-> "null", expandPhase |-> 0, sectionCActive |-> FALSE,
            prevStepRef |-> -1, staggerQueue |-> << >>,
            sum3Added |-> FALSE, sum4Added |-> FALSE]
  /\ tradState = TradBlob(trad)
  /\ lcmState = LcmBlob(lcm)
  /\ collapseAnimRef = NoAnim
  /\ overlay = AgentationOverlayEffect([DEV |-> dev, import |-> "idle", Comp |-> "null"])

\* The production build
Init == InitBuild(FALSE)

\* Any build
InitOverlay == \E dev \in BOOLEAN : InitBuild(dev)

\* ---------------------------------------------------------------- actions
ScrollDown ==
  /\ mounted
  /\ zone < LastZone
  /\ trad.delayed < MaxDelayed \/ zone # 2 \/ trad.prevStepRef >= 2
  /\ zone' = zone + 1
  /\ Commit(Forward(zone, World))
  /\ UNCHANGED << mounted, overlay >>

ScrollUp ==
  /\ mounted
  /\ zone > 0
  /\ zone' = zone - 1
  /\ Commit(Backward(zone - 1, World))
  /\ UNCHANGED << mounted, overlay >>

\* Scrolling inside the scrub section without crossing a zone boundary
ScrubMove ==
  /\ mounted
  /\ zone \in FirstScrubZone..LastScrubZone
  /\ Commit(scrubOnUpdate(World, ZoneProgress(zone)))
  /\ UNCHANGED << zone, mounted, overlay >>

\* A staggered gsap.delayedCall of TraditionalScene fires
TradStaggerFire ==
  /\ trad.staggerQueue # << >>
  /\ Commit([World EXCEPT !.trad.items = Append(@, Head(trad.staggerQueue)),
                           !.trad.itemsRef = "new", !.trad.newRef = TRUE,
                           !.trad.staggerQueue = Tail(@)])
  /\ UNCHANGED << zone, mounted, overlay >>

\* The gsap.delayedCall(0.4, ...) of TraditionalScene step 2 fires
TradDelayedFire ==
  /\ trad.delayed > 0
  /\ LET w1 == [World EXCEPT !.trad.delayed = @ - 1, !.trad.summarizing = FALSE]
     IN  Commit(IF mounted THEN animateCollapse(w1, T_MESSAGES, "trad") ELSE w1)
  /\ UNCHANGED << zone, mounted, overlay >>

\* A staggered gsap.delayedCall of CompactionScene fires
LcmStaggerFire ==
  /\ lcm.staggerQueue # << >>
  /\ Commit([World EXCEPT !.lcm.items = Append(@, Head(lcm.staggerQueue)),
                           !.lcm.staggerQueue = Tail(@)])
  /\ UNCHANGED << zone, mounted, overlay >>

\* The collapse timeline finishes both phases
CollapseComplete ==
  /\ collapseAnimRef # NoAnim
  /\ Commit(OnComplete([World EXCEPT !.collapseAnimRef = NoAnim], collapseAnimRef))
  /\ UNCHANGED << zone, mounted, overlay >>

\* The React tree is unmounted: the effect cleanups kill the ScrollTriggers
Unmount ==
  /\ mounted
  /\ mounted' = FALSE
  /\ UNCHANGED << zone, mode, tradState, lcmState, trad, lcm, collapseAnimRef, overlay >>

ImportResolve ==
  /\ overlay.import = "pending"
  /\ overlay' = [overlay EXCEPT !.import = "resolved", !.Comp = "Agentation"]
  /\ UNCHANGED << zone, mounted, mode, tradState, lcmState, trad, lcm, collapseAnimRef >>

ImportReject ==
  /\ overlay.import = "pending"
  /\ overlay' = [overlay EXCEPT !.import = "rejected"]
  /\ UNCHANGED << zone, mounted, mode, tradState, lcmState, trad, lcm, collapseAnimRef >>

\* The scroll machine of the page
Next ==
  \/ ScrollDown
  \/ ScrollUp
  \/ ScrubMove
  \/ TradStaggerFire
  \/ TradDelayedFire
  \/ LcmStaggerFire
  \/ CollapseComplete
  \/ Unmount

Spec == Init /\ [][Next]_vars

\* The overlay next to the first sections of the page, in either build
OverlayScrollDown == zone < OverlayLastZone /\ ScrollDown

NextOverlay ==
  \/ ImportResolve
  \/ ImportReject
  \/ OverlayScrollDown
  \/ ScrollUp
  \/ TradStaggerFire
  \/ TradDelayedFire
  \/ LcmStaggerFire
  \/ CollapseComplete
  \/ Unmount

SpecOverlay == InitOverlay /\ [][NextOverlay]_vars

\* ----------------------------------------------------------------- claims
\* The page is mounted and nothing scheduled is still to fire: no delayed
\* call of either scene and no collapse timeline.
NoPending ==
  /\ mounted
  /\ trad.staggerQueue = << >>
  /\ trad.delayed = 0
  /\ lcm.staggerQueue = << >>
  /\ collapseAnimRef = NoAnim

\* C1: in CompactionScene, whenever the step is a numbered narration step s
\* in 0..20 and nothing is pending, the context items and the DAG summaries
\* are itemsForStep(s).items and itemsForStep(s).summaries.
C1_ItemsFollowStep ==
  (lcm.step \in 0..20 /\ NoPending) =>
     /\ lcm.items = itemsForStep(lcm.step).items
     /\ lcm.summaries = itemsForStep(lcm.step).summaries

\* C2: in TraditionalScene, once nothing is pending the state is the one
\* scripted for the step: 0 -> first two messages, 1 -> all six messages,
\* 2 -> no items and the flat summary; summarizing is false in all three.
C2_TradScripted ==
  NoPending =>
     /\ ~trad.summarizing
     /\ trad.step = 0 => (trad.items = Slice(T_MESSAGES, 0, 2) /\ ~trad.showSummary)
     /\ trad.step = 1 => (trad.items = T_MESSAGES /\ ~trad.showSummary)
     /\ trad.step = 2 => (trad.items = << >> /\ trad.showSummary)

\* The step a slow scroll from the top of the page leaves behind in zone z
\* (-1 inside the scrub section and in the gap after it).
DownStep(z) ==
  IF z <= 4 THEN 0
  ELSE IF z <= 21 THEN (z - 4) \div 2
  ELSE IF z <= 26 THEN -1
  ELSE 9 + (z - 26) \div 2

\* The panel state a slow scroll from the top of the page leaves behind in
\* zone z, once settled.
DownPanel(z) ==
  [mode |-> IF z <= 3 THEN "traditional" ELSE "lcm",
   step |-> DownStep(z),
   items |-> IF z \in 22..23 THEN <<"sum_01", "sum_02", "fresh-placeholder">>
             ELSE IF z = 24 THEN <<"sum_01", "sum_02", "sum_03", "fresh-placeholder">>
             ELSE IF z \in 25..26
                  THEN <<"sum_01", "sum_02", "sum_03", "sum_04", "fresh-placeholder">>
             ELSE itemsForStep(DownStep(z)).items,
   summaries |-> IF z \in 22..23 THEN <<"sum_01", "sum_02">>
                 ELSE IF z = 24 THEN <<"sum_01", "sum_02", "sum_03">>
                 ELSE IF z \in 25..26 THEN <<"sum_01", "sum_02", "sum_03", "sum_04">>
                 ELSE itemsForStep(DownStep(z)).summaries,
   fastForward |-> z \in 22..25]

Panel ==
  [mode |-> mode, step |-> lcm.step, items |-> lcm.items,
   summaries |-> lcm.summaries, fastForward |-> lcm.fastForward]

\* C3: the settled panel state (mode, step, items, summaries, fastForward)
\* is determined by the scroll position alone: every history that ends in
\* zone z settles in the state the plain scroll down to z settles in.
C3_PositionDeterminesPanel ==
  NoPending => Panel = DownPanel(zone)

\* the applyStep call that requested the running collapse
CollapseStep(cb) ==
  CASE cb = "trad" -> 2 [] cb = "lcm5" -> 5 [] cb = "lcm8" -> 8 [] cb = "lcm10" -> 10

\* C4: a re-trigger cancels everything the previous step scheduled: a
\* callback scheduled by an applyStep call that fires after a later applyStep
\* call of the same scene (the scene's prevStepRef is then another step)
\* changes none of the scene's items, summaries, showSummary, summarizing.
C4_RetriggerCancels ==
  [][/\ (TradDelayedFire /\ trad.prevStepRef # 2)
           => UNCHANGED << trad.items, trad.showSummary, trad.summarizing >>
     /\ (CollapseComplete /\ collapseAnimRef = "trad" /\ trad.prevStepRef # 2)
           => UNCHANGED << trad.items, trad.showSummary, trad.summarizing >>
     /\ (CollapseComplete /\ collapseAnimRef # "trad"
           /\ lcm.prevStepRef # CollapseStep(collapseAnimRef))
           => UNCHANGED << lcm.items, lcm.summaries >>]_vars

\* C5: after unmount no delayed call queued by a scene and no collapse
\* onComplete it requested fires.
C5_UnmountCancels ==
  [][~mounted => ~(TradStaggerFire \/ TradDelayedFire \/ LcmStaggerFire
                     \/ CollapseComplete)]_vars

\* C6: mode is switched by ScrollTrigger activation only: it changes only in
\* a scroll step across a zone boundary, never in a step in which a scene's
\* callback fires and reports its state.
C6_ModeOnlyByActivation ==
  [][/\ mode' # mode => (mounted /\ zone' # zone)
     /\ (TradStaggerFire \/ TradDelayedFire \/ LcmStaggerFire \/ CollapseComplete)
           => mode' = mode]_vars

\* C6 witness: a Traditional report has arrived while the LCM scene is active
C6_LateTradReport == mode = "lcm" /\ tradState # Null

\* C7: wherever mode is "lcm", tradState is null.
C7_LcmModeTradNull == mode = "lcm" => tradState = Null

\* C8: in a production build the overlay never imports agentation and
\* renders nothing; in development it renders nothing until the import has
\* resolved.
C8_OverlayDevOnly ==
  /\ ~overlay.DEV => (overlay.import = "idle" /\ overlay.Comp = "null")
  /\ overlay.import # "resolved" => overlay.Comp = "null"

\* C8 witness: the production build in use, the overlay idle
C8_ProductionScrolled == ~overlay.DEV /\ zone > 0 /\ overlay.Comp = "null"

\* C9 (as stated): the onComplete of every animateCollapse call is invoked
\* exactly once: a running timeline ends only by completing.
C9_OnCompleteExactlyOnce ==
  [][(collapseAnimRef # NoAnim /\ collapseAnimRef' # collapseAnimRef)
        => CollapseComplete]_vars

\* C9 (amended): onComplete is invoked at once when no id has a mounted
\* element; otherwise a timeline runs, and it ends only by completing (its
\* onComplete invoked, no timeline left) or by being killed by a later
\* animateCollapse call that starts a timeline of its own.
C9_OnCompleteUnlessKilled ==
  [][/\ (collapseAnimRef # NoAnim /\ collapseAnimRef' # collapseAnimRef)
          => (CollapseComplete \/ collapseAnimRef' # NoAnim)
     /\ (CollapseComplete /\ collapseAnimRef = "trad")
          => (trad.showSummary' /\ trad.items' = << >> /\ collapseAnimRef' = NoAnim)
     /\ (TradDelayedFire /\ mounted /\ Range(T_MESSAGES) \cap itemRefs = {})
          => (trad.showSummary' /\ trad.items' = << >>
              /\ collapseAnimRef' = collapseAnimRef)
     /\ (TradDelayedFire /\ mounted /\ Range(T_MESSAGES) \cap itemRefs # {})
          => (collapseAnimRef' = "trad" /\ trad.showSummary' = trad.showSummary)]_vars

\* C9 witness: TraditionalScene entered step 2 forward and its delayed call
\* has run, yet the flat summary is not shown and no Traditional timeline is
\* running: the timeline was killed by a later animateCollapse call.
C9_TradTimelineKilled ==
  /\ mounted
  /\ trad.step = 2 /\ trad.delayed = 0
  /\ ~trad.showSummary /\ ~trad.summarizing
  /\ collapseAnimRef \in {"lcm5", "lcm8", "lcm10"}

\* C10: whenever the scrub ScrollTrigger is active the LCM scene is in
\* fast-forward mode: fastForward is true and step is -1.
C10_ScrubIsFastForward ==
  (mounted /\ zone \in FirstScrubZone..LastScrubZone)
     => (lcm.fastForward /\ lcm.step = -1)

\* C11: while the scrub ScrollTrigger is active, SUMMARY_3 is in summaries
\* exactly when the last reported progress is >= 0.4, and SUMMARY_4 exactly
\* when it is >= 0.72.
C11_ScrubMilestones ==
  (mounted /\ zone \in FirstScrubZone..LastScrubZone) =>
     /\ (SUMMARY_3.id \in Range(lcm.summaries)) <=> (ZoneProgress(zone) >= 40)
     /\ (SUMMARY_4.id \in Range(lcm.summaries)) <=> (ZoneProgress(zone) >= 72)

\* C12: the LCM context items are listed oldest first: every summary item
\* precedes every raw-message item, and the fresh-tail placeholder, when
\* present, is the last item only and no raw message is present with it.
C12_ItemsOrdered ==
  mounted =>
    /\ \A i, j \in 1..Len(lcm.items) :
          (i < j /\ ItemType(lcm.items[i]) = "message")
             => ItemType(lcm.items[j]) # "summary"
    /\ \A i \in 1..Len(lcm.items) :
          ItemType(lcm.items[i]) = "fresh-placeholder"
             => /\ i = Len(lcm.items)
                /\ \A j \in 1..Len(lcm.items) : ItemType(lcm.items[j]) # "message"

\* C13: the fresh tail is never compacted: when applyStep(5) or applyStep(8)
\* comes from a lower step and starts the compaction collapse, none of the
\* ids it passes to animateCollapse carries the FRESH TAIL badge, i.e. is
\* among the last FRESH_TAIL_COUNT raw messages displayed at that moment.
C13_FreshTailNotCompacted ==
  [][/\ (lcm.prevStepRef < 5 /\ lcm.prevStepRef' = 5)
          => Range(SUMMARY_1.sourceIds) \cap freshIds = {}
     /\ (lcm.prevStepRef < 8 /\ lcm.prevStepRef' = 8)
          => Range(SUMMARY_2.sourceIds) \cap freshIds = {}]_vars

\* The numbered steps that come before the state of the scene: the steps
\* below the current one, and steps 0..8 for the scrub states (step -1).
EarlierSteps == IF lcm.step = -1 THEN 0..8 ELSE 0..(lcm.step - 1)

\* Raw messages shown in the context items at an earlier step
ShownBefore ==
  { m \in Range(MESSAGES) : \E k \in EarlierSteps : m \in Range(itemsForStep(k).items) }

\* C14: nothing is discarded: in every settled state of the LCM scene every
\* raw message shown at an earlier step and no longer in the items is listed
\* in the sourceIds of a summary present in the DAG summaries.
C14_NothingDiscarded ==
  NoPending =>
     \A m \in ShownBefore \ Range(lcm.items) :
        \E sm \in Range(lcm.summaries) : m \in Range(sourceIdsOf(sm))

\* The summary a collapse step brings in
NewSummary(s) ==
  CASE s = 5 -> SUMMARY_1 [] s = 8 -> SUMMARY_2 [] s = 10 -> D1_SUMMARY

\* seq with item x inserted after its last summary item
InsertAfterSummaries(seq, x) ==
  LET last == { i \in 1..Len(seq) : ItemType(seq[i]) = "summary" }
      n == IF last = {} THEN 0 ELSE CHOOSE i \in last : \A j \in last : j <= i
  IN  SubSeq(seq, 1, n) \o << x >> \o SubSeq(seq, n + 1, Len(seq))

\* The items step s is to show according to the claim: the items of step
\* s - 1 minus the collapsed ids, the new summary after the summaries left.
AfterCollapse(s) ==
  LET NotCollapsed(i) == i \notin Range(collapseIds(s))
  IN  InsertAfterSummaries(Filter(itemsForStep(s - 1).items, NotCollapsed),
                           sumItem(NewSummary(s)))

\* C15: each collapse animates out exactly what the step removes: in the
\* transitions 4->5, 7->8 and 9->10 the ids passed to animateCollapse are
\* the items of the previous step absent from the new step, and the items
\* the collapse ends in are the previous items minus those ids with the new
\* summary inserted after the remaining summaries.
C15_CollapseRemovesExactly ==
  [][/\ \A s \in {5, 8, 10} :
          (lcm.prevStepRef = s - 1 /\ lcm.prevStepRef' = s)
             => /\ Range(collapseIds(s))
                     = Range(itemsForStep(s - 1).items) \ Range(itemsForStep(s).items)
                /\ itemsForStep(s).items = AfterCollapse(s)
     /\ (CollapseComplete /\ collapseAnimRef # "trad")
          => lcm.items' = AfterCollapse(CollapseStep(collapseAnimRef))]_vars

\* C15 witness: the collapse of step 8 is running on the items of step 7
C15_CompactionRunning ==
  /\ mounted /\ collapseAnimRef = "lcm8"
  /\ lcm.prevStepRef = 8
  /\ lcm.items = itemsForStep(7).items

\* C16: when a tool view is active (describe, grep, expand), every node
\* named in dagHighlightIds is shown highlighted by DagPanel, whatever group
\* the panel shows expanded.
C16_HighlightIdsShown ==
  (mounted /\ mode = "lcm" /\ lcmState.toolView \in {"describe", "grep", "expand"})
     => \E v \in visualExpandedD1Ids(lcmState.summaries) :
           Range(lcmState.dagHighlightIds)
              \subseteq dagHighlighted(lcmState.summaries, lcmState.dagHighlightIds, v)

====
